---- MODULE Spec2Model ----
(***************************************************************************)
(* Agent Control Plane: the deterministic replay engine                    *)
(* (src/src/core/replay-engine.ts) and the editor extension: run           *)
(* artifacts, loader, counterfactual construction and RunContext           *)
(* (src/vscode-extension/src/engines/CounterfactualEngine.ts), the         *)
(* comparison and analysis engines and the secret redactor.                *)
(*                                                                         *)
(* The specifications share the variables:                                 *)
(*   SpecReplay    one ReplayEngine over a trace drawn from bounded sets   *)
(*   SpecRuns      a directory of runs, the loader and createSimulation    *)
(*   SpecLoader    the loader over every shape of run directory            *)
(*   SpecContext   RunContext with overlapping loadRun calls               *)
(*   SpecCompare   compare and analyze over pairs of runs                  *)
(*   SpecAnalysis  analyze over runs of every status sequence              *)
(*   SpecRedact    redactObject over nested values                         *)
(*   SpecSnapshot  redactObject over the snapshots of the State Inspector  *)
(*   SpecRecorder  the trace recorder's lifecycle and step limit           *)
(*   SpecCli       the test command over a trace and a test file           *)
(***************************************************************************)
EXTENDS Integers, Sequences, FiniteSets, TLC

\* ------------------------------------------------------------------------
\* Bounds
\* ------------------------------------------------------------------------
MaxSteps == 2        \* longest recorded trace
MaxCalls == 3        \* endpoint invocations made on one engine
MaxLines == 3        \* longest steps.jsonl of a recorded run
MaxClock == 1        \* readings of Date.now() are 0..MaxClock
MaxSims == 2         \* createSimulation calls made

VARIABLES
    \* ReplayEngine
    trace,             \* this.trace
    currentStepIndex,  \* this.currentStepIndex
    replayRecorder,    \* this.replayRecorder
    replayState,       \* this.replayState
    divergences,       \* this.divergences
    lastCall,          \* what the last endpoint invocation was and returned
    handedOut,         \* indices of the recorded steps returned so far
    calls,             \* number of endpoint invocations so far
    replayResult,      \* the ReplayResult of the last replay()
    \* run artifacts
    fs,                \* the parent directory: run directory name -> contents
    now,               \* Date.now()
    run,               \* the RunArtifacts held in memory
    simCalls,          \* number of createSimulation calls so far
    lastOp,            \* the last loader / counterfactual operation
    \* RunContext
    ctxCurrentRun,     \* this._currentRun
    ctxLoader,         \* this._loader
    ctxStepIndex,      \* this._currentStepIndex
    pendingLoads,      \* loadRun calls suspended at their await, oldest first
    fired,             \* the events fired by the last step, in order
    ctxLast,           \* the last RunContext operation that completed
    \* ComparisonEngine
    cmpRun1,           \* the first run handed to compare
    cmpRun2,           \* the second run handed to compare
    comparison,        \* the RunComparison returned
    report,            \* the AnalysisReport returned for the first run
    \* SecretRedactor
    redactIn,          \* the value handed to redactObject
    redactOut,         \* the value it returned
    \* trace recorder of the SDK
    recState,          \* idle, recording or sealed
    recSteps,          \* the step records persisted so far, in log order
    recMeta,           \* the terminal fields of the run metadata
    recLast,           \* the last recorder call and how it ended
    \* test CLI
    cliArgs,           \* what the command line names: trace file, test file
    cliExit            \* whether the process has ended, and its exit status

replayVars == <<trace, currentStepIndex, replayRecorder, replayState,
                divergences, lastCall, handedOut, calls, replayResult>>
runVars == <<fs, now, run, simCalls, lastOp>>
ctxVars == <<ctxCurrentRun, ctxLoader, ctxStepIndex, pendingLoads, fired, ctxLast>>
\* the variables of the parts added after the replay engine and the run artifacts
cmpVars == <<cmpRun1, cmpRun2, comparison, report>>
redVars == <<redactIn, redactOut>>
recVars == <<recState, recSteps, recMeta, recLast>>
cliVars == <<cliArgs, cliExit>>
extVars == <<ctxVars, cmpVars, redVars, recVars, cliVars>>
vars == <<trace, currentStepIndex, replayRecorder, replayState, divergences,
          lastCall, handedOut, calls, replayResult, fs, now, run, simCalls,
          lastOp,
          ctxCurrentRun, ctxLoader, ctxStepIndex, pendingLoads, fired, ctxLast,
          cmpRun1, cmpRun2, comparison, report, redactIn, redactOut,
          recState, recSteps, recMeta, recLast, cliArgs, cliExit>>

Range(s) == {s[i] : i \in 1..Len(s)}

\* ========================================================================
\* Replay engine
\* ========================================================================

\* AgentState, restricted to the key fields the engine compares.
AgentStates == [status : {"running", "completed"}, currentStep : {1, 2}, goal : {"g1", "g2"}]

\* `undefined` where an AgentState is expected
NoState == [status |-> "undefined", currentStep |-> -1, goal |-> "undefined"]

\* Snapshots the recorded steps carry.
SnapshotStates ==
    {[status |-> "running", currentStep |-> 1, goal |-> "g1"],
     [status |-> "completed", currentStep |-> 2, goal |-> "g1"]}

ToolNames == {"search", "book"}
NoTool == "none"

Tok(prefix, i) == prefix \o ToString(i)

\* The recorded step at position i: an llm step, a tool step of either tool,
\* or a state step.  Outputs are distinct per position.
LLMStepAt(i, s) ==
    [stepNumber |-> i, stepType |-> "llm",
     input |-> [toolName |-> NoTool, parameters |-> Tok("prompt", i)],
     output |-> [response |-> Tok("resp", i), action |-> Tok("act", i),
                 reasoning |-> Tok("why", i),
                 success |-> FALSE, result |-> "", error |-> ""],
     stateSnapshot |-> s]

ToolStepAt(i, t, s) ==
    [stepNumber |-> i, stepType |-> "tool",
     input |-> [toolName |-> t, parameters |-> Tok("params", i)],
     output |-> [response |-> "", action |-> "", reasoning |-> "",
                 success |-> (i % 2 = 1), result |-> Tok("res", i),
                 error |-> Tok("err", i)],
     stateSnapshot |-> s]

StateStepAt(i, s) ==
    [stepNumber |-> i, stepType |-> "state",
     input |-> [toolName |-> NoTool, parameters |-> Tok("state", i)],
     output |-> [response |-> "", action |-> "", reasoning |-> "",
                 success |-> FALSE, result |-> "", error |-> ""],
     stateSnapshot |-> s]

StepsAt(i) ==
    UNION {{LLMStepAt(i, s), StateStepAt(i, s)} \cup {ToolStepAt(i, t, s) : t \in ToolNames}
           : s \in SnapshotStates}

StepSeqs(n) == {q \in [1..n -> UNION {StepsAt(i) : i \in 1..n}] :
                   \A i \in 1..n : q[i] \in StepsAt(i)}

Traces ==
    {[steps |-> q, finalState |-> f, toolsUsed |-> u] :
        q \in UNION {StepSeqs(n) : n \in 0..MaxSteps},
        f \in AgentStates \cup {NoState},
        u \in {{"search"}, ToolNames}}

\* createInitialState(taskId, '') of ./types
createInitialState ==
    [status |-> "idle", currentStep |-> 0, goal |-> ""]

\* TraceRecorder of ./trace-recorder: recordStep appends to an unsealed run.
TraceRecorder_recordStep(rec, stepType, input, output, stateSnapshot, metadata) ==
    IF rec.sealed THEN rec
    ELSE [rec EXCEPT !.steps = Append(@,
            [stepType |-> stepType, input |-> input, output |-> output,
             stateSnapshot |-> stateSnapshot, metadata |-> metadata])]

\* TraceRecorder.finalize seals the run; the trace it returns holds the steps.
TraceRecorder_finalize(rec) == [rec EXCEPT !.sealed = TRUE]

\* findNextStep with the cursor left on the step found (i instead of i + 1)
findNextStep_cursorOnHit(steps, cursor, stepType) ==
    LET hits == {i \in (cursor + 1)..Len(steps) : steps[i].stepType = stepType}
    IN  IF hits = {} THEN [found |-> FALSE, index |-> 0, cursor |-> cursor]
        ELSE LET i == CHOOSE j \in hits : \A k \in hits : j <= k
             IN  [found |-> TRUE, index |-> i, cursor |-> i - 1]

\* findNextStep(stepType): the first step of that type at or after the cursor
findNextStep(steps, cursor, stepType) ==
    LET hits == {i \in (cursor + 1)..Len(steps) : steps[i].stepType = stepType}
    IN  IF hits = {} THEN [found |-> FALSE, index |-> 0, cursor |-> cursor]
        ELSE LET i == CHOOSE j \in hits : \A k \in hits : j <= k
             IN  [found |-> TRUE, index |-> i, cursor |-> i]

\* hasMoreSteps(): currentStepIndex < steps.length - 1
hasMoreSteps(steps, cursor) == cursor < Len(steps) - 1

\* findNextToolCall that names the first tool step of the trace
findNextToolCall_fromStart(steps, cursor) ==
    LET hits == {i \in 1..Len(steps) : steps[i].stepType = "tool"}
    IN  IF hits = {} THEN NoTool
        ELSE steps[CHOOSE j \in hits : \A k \in hits : j <= k].input.toolName

\* findNextToolCall(llmStep): the tool step right at the cursor, if any
findNextToolCall(steps, cursor) ==
    IF cursor + 1 <= Len(steps) /\ steps[cursor + 1].stepType = "tool"
    THEN steps[cursor + 1].input.toolName
    ELSE NoTool

KeysToCompare == <<"status", "currentStep", "goal">>

\* JSON.stringify of a key field
JSONstringify(v) == ToString(v)

\* compareStates(state1, state2): pushes a divergence for the first key field
\* that differs and returns false there; false without a divergence when
\* state1 is undefined.
compareStates(state1, state2, divs, cursor) ==
    IF state1 = NoState THEN [match |-> FALSE, divergences |-> divs]
    ELSE LET diff == {k \in 1..Len(KeysToCompare) :
                        JSONstringify(state1[KeysToCompare[k]])
                            # JSONstringify(state2[KeysToCompare[k]])}
         IN  IF diff = {} THEN [match |-> TRUE, divergences |-> divs]
             ELSE LET k == CHOOSE j \in diff : \A m \in diff : j <= m
                  IN  [match |-> FALSE,
                       divergences |-> Append(divs,
                          [stepNumber |-> cursor, type |-> "state_mismatch",
                           field |-> KeysToCompare[k],
                           expected |-> JSONstringify(state1[KeysToCompare[k]]),
                           actual |-> JSONstringify(state2[KeysToCompare[k]])])]

\* replayStep that records only the llm and tool steps
replayStep_endpointStepsOnly(rec, step) ==
    IF step.stepType \in {"llm", "tool"}
    THEN TraceRecorder_recordStep(rec, step.stepType, step.input, step.output,
            step.stateSnapshot,
            [replayed |-> TRUE, originalStepNumber |-> step.stepNumber])
    ELSE rec

\* replayStep(step): record the step on the replay recorder
replayStep(rec, step) ==
    TraceRecorder_recordStep(rec, step.stepType, step.input, step.output,
        step.stateSnapshot,
        [replayed |-> TRUE, originalStepNumber |-> step.stepNumber])

RECURSIVE replayLoop(_, _, _)
\* the for-loop of replay(): every step of the trace, in order
replayLoop(rec, steps, i) ==
    IF i > Len(steps) THEN rec
    ELSE replayLoop(replayStep(rec, steps[i]), steps, i + 1)

NoCall == [kind |-> "none", toolName |-> NoTool, found |-> FALSE, index |-> 0,
           cursorBefore |-> 0,
           response |-> "", action |-> "", shouldContinue |-> FALSE,
           toolCall |-> NoTool, success |-> FALSE, result |-> "", error |-> ""]

NoResult == [returned |-> FALSE, success |-> FALSE, stateMatch |-> FALSE,
             finalState |-> NoState, original |-> 0, replay |-> 0,
             stepsMatch |-> FALSE, divergences |-> <<>>, replaySteps |-> <<>>]

InitReplayEngine ==
    /\ trace \in Traces
    /\ currentStepIndex = 0
    /\ replayRecorder = [steps |-> <<>>, sealed |-> FALSE]
    /\ replayState = createInitialState
    /\ divergences = <<>>
    /\ lastCall = NoCall
    /\ handedOut = <<>>
    /\ calls = 0
    /\ replayResult = NoResult

\* createReplayLLMProvider().call(request)
LLMCall ==
    /\ calls < MaxCalls
    /\ LET r == findNextStep(trace.steps, currentStepIndex, "llm")
       IN  /\ currentStepIndex' = r.cursor
           /\ IF ~r.found
              THEN /\ lastCall' = [NoCall EXCEPT !.kind = "llm",
                                      !.cursorBefore = currentStepIndex,
                                      !.response = "DONE"]
                   /\ handedOut' = handedOut
              ELSE /\ lastCall' = [NoCall EXCEPT !.kind = "llm", !.found = TRUE,
                        !.index = r.index,
                        !.cursorBefore = currentStepIndex,
                        !.response = trace.steps[r.index].output.response,
                        !.action = trace.steps[r.index].output.action,
                        !.shouldContinue = hasMoreSteps(trace.steps, r.cursor),
                        !.toolCall = findNextToolCall(trace.steps, r.cursor)]
                   /\ handedOut' = Append(handedOut, r.index)
    /\ calls' = calls + 1
    /\ UNCHANGED <<trace, replayRecorder, replayState, divergences, replayResult>>
    /\ UNCHANGED <<runVars, extVars>>

\* createReplayTools()[toolName].execute(params)
ToolExecute(toolName) ==
    /\ calls < MaxCalls
    /\ toolName \in trace.toolsUsed
    /\ LET r == findNextStep(trace.steps, currentStepIndex, "tool")
       IN  /\ currentStepIndex' = r.cursor
           /\ IF ~r.found \/ trace.steps[r.index].input.toolName # toolName
              THEN /\ lastCall' = [NoCall EXCEPT !.kind = "tool",
                                      !.toolName = toolName,
                                      !.found = r.found, !.index = r.index,
                                      !.cursorBefore = currentStepIndex,
                                      !.error = "No recorded output"]
                   /\ handedOut' = handedOut
              ELSE /\ lastCall' = [NoCall EXCEPT !.kind = "tool",
                        !.toolName = toolName,
                        !.found = TRUE, !.index = r.index,
                        !.cursorBefore = currentStepIndex,
                        !.success = trace.steps[r.index].output.success,
                        !.result = trace.steps[r.index].output.result,
                        !.error = trace.steps[r.index].output.error]
                   /\ handedOut' = Append(handedOut, r.index)
    /\ calls' = calls + 1
    /\ UNCHANGED <<trace, replayRecorder, replayState, divergences, replayResult>>
    /\ UNCHANGED <<runVars, extVars>>

\* The original's final state: trace.finalState || last step's snapshot
OriginalFinalState(t) ==
    IF t.finalState # NoState THEN t.finalState
    ELSE IF Len(t.steps) > 0 THEN t.steps[Len(t.steps)].stateSnapshot
    ELSE NoState

\* replay()
Replay ==
    LET n == Len(trace.steps)
        rec == TraceRecorder_finalize(replayLoop(replayRecorder, trace.steps, 1))
        state == IF n > 0 THEN trace.steps[n].stateSnapshot ELSE replayState
        cmp == compareStates(OriginalFinalState(trace), state, <<>>, n)
    IN  /\ currentStepIndex' = n
        /\ replayRecorder' = rec
        /\ replayState' = state
        /\ divergences' = cmp.divergences
        /\ replayResult' = [returned |-> TRUE,
                            success |-> (Len(cmp.divergences) = 0),
                            stateMatch |-> cmp.match,
                            finalState |-> state,
                            original |-> n,
                            replay |-> Len(rec.steps),
                            stepsMatch |-> (n = Len(rec.steps)),
                            divergences |-> cmp.divergences,
                            replaySteps |-> rec.steps]
        /\ lastCall' = [NoCall EXCEPT !.kind = "replay"]
        /\ UNCHANGED <<trace, handedOut, calls>>
        /\ UNCHANGED <<runVars, extVars>>

\* ========================================================================
\* Properties of the replay engine
\* ========================================================================
HasDivergence(divs, type) == \E i \in 1..Len(divs) : divs[i].type = type

KeyFieldsEqual(s1, s2) ==
    /\ s1.status = s2.status
    /\ s1.currentStep = s2.currentStep
    /\ s1.goal = s2.goal

\* C1: replay() of an unmodified trace (here: one with at least one step)
\* returns success = true and stateMatch = true, and status, currentStep and
\* goal of the replay's final state equal those of the original's final state.
C1_ReplayIdentity ==
    (replayResult.returned /\ Len(trace.steps) > 0) =>
        /\ replayResult.success
        /\ replayResult.stateMatch
        /\ KeyFieldsEqual(replayResult.finalState, OriginalFinalState(trace))

\* C2: a tool endpoint invoked with a name that differs from the name recorded
\* in the next tool step records an output_mismatch divergence and returns an
\* error result.
C2_ToolMismatchRecorded ==
    (/\ lastCall.kind = "tool"
     /\ lastCall.found
     /\ trace.steps[lastCall.index].input.toolName # lastCall.toolName) =>
        /\ HasDivergence(divergences, "output_mismatch")
        /\ lastCall.success = FALSE

\* the recorded steps the endpoints can hand out
RecordedEndpointSteps ==
    Cardinality({i \in 1..Len(trace.steps) : trace.steps[i].stepType \in {"llm", "tool"}})

\* C3: more endpoint invocations than recorded llm/tool steps leave an
\* extra_step divergence in the engine; a replay that ends after fewer
\* invocations reports a missing_step divergence.
C3_StepCountDivergence ==
    /\ (lastCall.kind \in {"llm", "tool"} /\ calls > RecordedEndpointSteps) =>
            HasDivergence(divergences, "extra_step")
    /\ (replayResult.returned /\ calls < RecordedEndpointSteps) =>
            HasDivergence(replayResult.divergences, "missing_step")

DifferingKeys(s1, s2) ==
    {k \in {"status", "currentStep", "goal"} : s1[k] # s2[k]}

\* C5: at the end of replay() every key field that differs between the
\* original final state and the replay final state has a state_mismatch
\* divergence naming it, and stateMatch holds exactly when none differs.
C5_EveryMismatchRecorded ==
    (replayResult.returned /\ Len(trace.steps) > 0) =>
        LET diff == DifferingKeys(OriginalFinalState(trace), replayResult.finalState)
        IN  /\ \A k \in diff :
                  \E i \in 1..Len(replayResult.divergences) :
                      /\ replayResult.divergences[i].type = "state_mismatch"
                      /\ replayResult.divergences[i].field = k
            /\ replayResult.stateMatch <=> (diff = {})

\* C6: a model-endpoint invocation returns the response and action of the
\* first llm step at or after the cursor and leaves the cursor just past it;
\* no endpoint invocation moves the cursor back, and the steps handed out by
\* the endpoints are in strictly increasing recorded order.
C6_CursorOrder ==
    /\ (lastCall.kind = "llm" /\ lastCall.found) =>
          /\ lastCall.index > lastCall.cursorBefore
          /\ trace.steps[lastCall.index].stepType = "llm"
          /\ \A j \in (lastCall.cursorBefore + 1)..(lastCall.index - 1) :
                trace.steps[j].stepType # "llm"
          /\ lastCall.response = trace.steps[lastCall.index].output.response
          /\ lastCall.action = trace.steps[lastCall.index].output.action
          /\ currentStepIndex = lastCall.index
    /\ (lastCall.kind = "llm" /\ ~lastCall.found) =>
          \A j \in (lastCall.cursorBefore + 1)..Len(trace.steps) :
                trace.steps[j].stepType # "llm"
    /\ lastCall.kind \in {"llm", "tool"} => currentStepIndex >= lastCall.cursorBefore
    /\ \A i, j \in 1..Len(handedOut) : i < j => handedOut[i] < handedOut[j]

\* a second llm step handed out after a tool step was handed out
C6_Witness ==
    /\ lastCall.kind = "llm"
    /\ lastCall.found
    /\ Len(handedOut) >= 2
    /\ lastCall.cursorBefore > 0

\* ========================================================================
\* Run artifacts: the parent directory, RunLoader, CounterfactualEngine
\* ========================================================================

\* Payloads (input / output) are maps over Keys; Absent marks a missing key.
Keys == {"p", "q"}
Absent == "absent"
NoPayload == [k \in Keys |-> "undefined"]      \* `undefined` as a payload

\* An AgentStep; NoStep stands for `null`.
NoStep == [step_id |-> -1, phase |-> "null", input |-> NoPayload,
           output |-> NoPayload, state_ref |-> "null", status |-> "null"]

\* The step a recorder wrote at position i of a step log.
RecordedStep(i, status) ==
    [step_id |-> i,
     phase |-> IF i % 2 = 1 THEN "reason" ELSE "tool",
     input |-> [k \in Keys |-> IF k = "p" THEN Tok("in", i) ELSE Absent],
     output |-> [k \in Keys |-> IF k = "p" THEN Tok("out", i) ELSE Absent],
     state_ref |-> Tok("snapshots/step_", i),
     status |-> status]

\* JSON.stringify(step): one line of text holding the step
JSONstringifyStep(step) == [kind |-> "json", step |-> step]

\* Lines of a step log: a serialized step, text that is not JSON, or blank.
GarbageLine == [kind |-> "garbage", step |-> NoStep]
BlankLine == [kind |-> "blank", step |-> NoStep]

LinesAt(i) ==
    {JSONstringifyStep(RecordedStep(i, st)) : st \in {"ok", "error"}}
        \cup {GarbageLine, BlankLine}

LineSeqs(n) == {q \in [1..n -> UNION {LinesAt(i) : i \in 1..n}] :
                   \A i \in 1..n : q[i] \in LinesAt(i)}

\* steps.jsonl: absent, or its lines (content.split('\n'))
NoStepsFile == [exists |-> FALSE, lines |-> <<>>]
StepsFiles ==
    {NoStepsFile} \cup
    {[exists |-> TRUE, lines |-> q] : q \in UNION {LineSeqs(n) : n \in 0..MaxLines}}

\* meta.json: absent, text that is not JSON, or a RunMeta
NoMeta == [kind |-> "missing", run_id |-> "", agent_version |-> "", tags |-> <<>>]
MalformedMeta == [kind |-> "malformed", run_id |-> "", agent_version |-> "", tags |-> <<>>]
RecordedMeta == [kind |-> "valid", run_id |-> "run_orig", agent_version |-> "1", tags |-> <<>>]

NoDir == [exists |-> FALSE, meta |-> NoMeta, steps |-> NoStepsFile, subdirs |-> {}]
EmptyDir == [exists |-> TRUE, meta |-> NoMeta, steps |-> NoStepsFile, subdirs |-> {}]

\* `run_${Date.now()}_sim`
newRunId(clock) == "run_" \o ToString(clock) \o "_sim"

OrigDir == "run_orig"
DirNames == {OrigDir} \cup {newRunId(t) : t \in 0..MaxClock}

NoRun == [loaded |-> FALSE, meta |-> NoMeta, steps |-> <<>>, path |-> ""]

\* ---- RunLoader ---------------------------------------------------------

\* JSON.parse(line) inside try/catch: the step, or null when it throws
parseLine(line) == IF line.kind = "json" THEN line.step ELSE NoStep

RECURSIVE mapParse(_)
mapParse(lines) ==
    IF lines = <<>> THEN <<>>
    ELSE <<parseLine(Head(lines))>> \o mapParse(Tail(lines))

nonBlank(line) == line.kind # "blank"
notNull(s) == s # NoStep

\* the pipeline of load() without its last filter: nulls stay in the list
parseStepLines_keepNull(lines) ==
    mapParse(SelectSeq(lines, nonBlank))

\* content.split('\n').filter(non-blank).map(parse or null).filter(non-null)
parseStepLines(lines) ==
    SelectSeq(mapParse(SelectSeq(lines, nonBlank)), notNull)

\* new RunLoader(runPath).load()
RunLoader_load(f, runPath) ==
    IF ~f[runPath].exists \/ f[runPath].meta.kind = "missing"
    THEN [ok |-> FALSE, error |-> "meta.json not found", run |-> NoRun]
    ELSE IF f[runPath].meta.kind = "malformed"
    THEN [ok |-> FALSE, error |-> "SyntaxError", run |-> NoRun]
    ELSE [ok |-> TRUE, error |-> "",
          run |-> [loaded |-> TRUE,
                   meta |-> f[runPath].meta,
                   steps |-> IF f[runPath].steps.exists
                             THEN parseStepLines(f[runPath].steps.lines)
                             ELSE <<>>,
                   path |-> runPath]]

\* ---- CounterfactualEngine ----------------------------------------------

\* steps.findIndex(s => s.step_id === stepId), 1-based; 0 when there is none
findIndex(steps, stepId) ==
    LET hits == {i \in 1..Len(steps) : steps[i].step_id = stepId}
    IN  IF hits = {} THEN 0 ELSE CHOOSE i \in hits : \A j \in hits : i <= j

\* slice that also keeps the pivot step itself
keptSteps_throughPivot(steps, splitIndex) == SubSeq(steps, 1, splitIndex)

\* originalRun.steps.slice(0, splitIndex)
keptSteps(steps, splitIndex) == SubSeq(steps, 1, splitIndex - 1)

\* { ...a, ...b }
spread(a, b) == [k \in Keys |-> IF b[k] # Absent THEN b[k] ELSE a[k]]

\* a pivot copy that is also given the next step id
targetStep_nextId(step, modification) ==
    [step EXCEPT
        !.step_id = @ + 1,
        !.input = IF modification.input # NoPayload
                  THEN spread(step.input, modification.input) ELSE step.input,
        !.output = IF modification.output # NoPayload
                   THEN spread(step.output, modification.output) ELSE step.output,
        !.status = "retry"]

\* the copy of the pivot step with the modification applied, status retry
targetStep(step, modification) ==
    [step EXCEPT
        !.input = IF modification.input # NoPayload
                  THEN spread(step.input, modification.input) ELSE step.input,
        !.output = IF modification.output # NoPayload
                   THEN spread(step.output, modification.output) ELSE step.output,
        !.status = "retry"]

RECURSIVE mapStringify(_)
\* allSteps.map(s => JSON.stringify(s)), joined by '\n'
mapStringify(steps) ==
    IF steps = <<>> THEN <<>>
    ELSE <<JSONstringifyStep(Head(steps))>> \o mapStringify(Tail(steps))

\* if (!fs.existsSync(dir)) fs.mkdirSync(dir)
mkdirIfMissing(f, d) == IF f[d].exists THEN f ELSE [f EXCEPT ![d] = EmptyDir]

\* createSimulation(originalRun, stepId, modification) at clock reading t
createSimulation(f, originalRun, stepId, modification, t) ==
    LET newRunPath == newRunId(t)
        f1 == mkdirIfMissing(f, newRunPath)
        meta == [originalRun.meta EXCEPT
                    !.run_id = newRunId(t),
                    !.tags = <<"simulation", "from:" \o originalRun.meta.run_id>>]
        f2 == [f1 EXCEPT ![newRunPath].meta = meta]
        splitIndex == findIndex(originalRun.steps, stepId)
    IN  IF splitIndex = 0
        THEN [fs |-> f2, threw |-> TRUE, path |-> newRunPath]
        ELSE LET allSteps == Append(keptSteps(originalRun.steps, splitIndex),
                                targetStep(originalRun.steps[splitIndex], modification))
                 f3 == [f2 EXCEPT ![newRunPath].steps =
                            [exists |-> TRUE, lines |-> mapStringify(allSteps)]]
                 f4 == [f3 EXCEPT ![newRunPath].subdirs =
                            @ \cup {"snapshots", "diffs", "tools"}]
             IN  [fs |-> f4, threw |-> FALSE, path |-> newRunPath]

\* ---- state and actions ---------------------------------------------------

NoModification == [input |-> NoPayload, output |-> NoPayload]
\* one modification adds a key to the input, the other overrides a key of the
\* output
Modifications ==
    {[input |-> [k \in Keys |-> IF k = "q" THEN "new" ELSE Absent],
      output |-> NoPayload],
     [input |-> NoPayload,
      output |-> [k \in Keys |-> IF k = "p" THEN "fixed" ELSE Absent]]}


NoOp == [op |-> "none", path |-> "", ok |-> FALSE, stepId |-> 0,
         modification |-> NoModification, preExisted |-> FALSE]

\* a recorded run directory holding the given meta.json and steps.jsonl
RecordedDir(m, sf) ==
    [exists |-> TRUE, meta |-> m, steps |-> sf,
     subdirs |-> {"snapshots", "diffs", "tools"}]

\* step logs of the runs simulations are branched from: each line a recorded
\* step or a line that does not parse
SourceStepsFiles ==
    LET SourceLineSeqs(n) ==
            {q \in LineSeqs(n) :
                \A i \in 1..n :
                    q[i] \in {JSONstringifyStep(RecordedStep(i, "ok")), GarbageLine}}
    IN  {NoStepsFile} \cup
        {[exists |-> TRUE, lines |-> q] :
            q \in UNION {SourceLineSeqs(n) : n \in 0..MaxLines}}

InitRuns ==
    /\ fs \in {[d \in DirNames |-> IF d = OrigDir THEN RecordedDir(RecordedMeta, sf)
                                  ELSE NoDir] : sf \in SourceStepsFiles}
    /\ now = 0
    /\ run = NoRun
    /\ simCalls = 0
    /\ lastOp = NoOp

\* any run directory a recorder may have left: meta.json valid, missing or
\* malformed; steps.jsonl missing or with any mix of lines
InitLoader ==
    /\ fs \in {[d \in DirNames |-> IF d = OrigDir THEN RecordedDir(m, sf) ELSE NoDir] :
               m \in {RecordedMeta, NoMeta, MalformedMeta}, sf \in StepsFiles}
    /\ now = 0
    /\ run = NoRun
    /\ simCalls = 0
    /\ lastOp = NoOp

InitRunsIdle ==
    /\ fs = [d \in DirNames |-> NoDir]
    /\ now = 0
    /\ run = NoRun
    /\ simCalls = 0
    /\ lastOp = NoOp

\* a caller loads a run directory: run = await new RunLoader(d).load()
Load(d) ==
    LET r == RunLoader_load(fs, d)
    IN  /\ run' = IF r.ok THEN r.run ELSE run
        /\ lastOp' = [NoOp EXCEPT !.op = "load", !.path = d, !.ok = r.ok]
        /\ UNCHANGED <<fs, now, simCalls>>
        /\ UNCHANGED <<replayVars, extVars>>

\* engine.createSimulation(run, stepId, modification)
CreateSimulation(stepId, modification) ==
    /\ run.loaded
    /\ simCalls < MaxSims
    /\ simCalls' = simCalls + 1
    /\ LET r == createSimulation(fs, run, stepId, modification, now)
       IN  /\ fs' = r.fs
           /\ lastOp' = [op |-> "createSimulation", path |-> r.path,
                         ok |-> ~r.threw, stepId |-> stepId,
                         modification |-> modification,
                         preExisted |-> fs[r.path].exists]
    /\ UNCHANGED <<now, run>>
    /\ UNCHANGED <<replayVars, extVars>>

\* the clock advances
Tick ==
    /\ now < MaxClock
    /\ now' = now + 1
    /\ lastOp' = [NoOp EXCEPT !.op = "tick"]
    /\ UNCHANGED <<fs, run, simCalls>>
    /\ UNCHANGED <<replayVars, extVars>>

\* ========================================================================
\* Properties of counterfactual construction and the loader
\* ========================================================================

\* the value of key k after a modification payload is applied to payload old
Applied(old, new, k) ==
    IF new # NoPayload /\ new[k] # Absent THEN new[k] ELSE old[k]

\* C7: the step log createSimulation writes is every source step strictly
\* before the pivot, unchanged and in order, followed by exactly one step:
\* the pivot with the modification applied to input/output, status retry and
\* every other field unchanged; no step after the pivot appears.
C7_SimulationStepLog ==
    (lastOp.op = "createSimulation" /\ lastOp.ok) =>
        LET lines == fs[lastOp.path].steps.lines
            src == run.steps
        IN  /\ fs[lastOp.path].steps.exists
            /\ \E idx \in 1..Len(src) :
                  /\ src[idx].step_id = lastOp.stepId
                  /\ \A j \in 1..(idx - 1) : src[j].step_id # lastOp.stepId
                  /\ Len(lines) = idx
                  /\ \A j \in 1..(idx - 1) :
                        lines[j] = [kind |-> "json", step |-> src[j]]
                  /\ lines[idx].kind = "json"
                  /\ lines[idx].step.status = "retry"
                  /\ lines[idx].step.step_id = src[idx].step_id
                  /\ lines[idx].step.phase = src[idx].phase
                  /\ lines[idx].step.state_ref = src[idx].state_ref
                  /\ \A k \in Keys :
                        /\ lines[idx].step.input[k]
                              = Applied(src[idx].input, lastOp.modification.input, k)
                        /\ lines[idx].step.output[k]
                              = Applied(src[idx].output, lastOp.modification.output, k)

\* a simulation branching at a pivot that has steps before and after it,
\* with a modified input
C7_Witness ==
    /\ lastOp.op = "createSimulation"
    /\ lastOp.ok
    /\ Len(fs[lastOp.path].steps.lines) >= 2
    /\ Len(run.steps) > Len(fs[lastOp.path].steps.lines)
    /\ lastOp.modification.input # NoPayload

\* C8: createSimulation leaves the source run untouched: the source run
\* directory is the same after the call as before, and so is the in-memory
\* source run.
C8_SourceUntouched ==
    [][lastOp'.op = "createSimulation" =>
          (fs'[run.path] = fs[run.path] /\ run' = run)]_vars

\* C9: the directory createSimulation writes into did not exist before the
\* call, so no existing run has its artifacts overwritten.
C9_NewRunDirectory ==
    lastOp.op = "createSimulation" => ~lastOp.preExisted

RECURSIVE StepsOfLines(_)
\* the steps of the lines that hold one, in log order
StepsOfLines(lines) ==
    IF lines = <<>> THEN <<>>
    ELSE IF Head(lines).kind = "json"
         THEN <<Head(lines).step>> \o StepsOfLines(Tail(lines))
         ELSE StepsOfLines(Tail(lines))

MalformedTail(d) ==
    /\ fs[d].exists
    /\ fs[d].meta.kind = "valid"
    /\ fs[d].steps.exists
    /\ Len(fs[d].steps.lines) > 0
    /\ fs[d].steps.lines[Len(fs[d].steps.lines)].kind = "garbage"

\* C10: load of a run whose steps.jsonl ends in a line that fails to parse
\* succeeds with exactly the steps of the preceding lines, in log order.
C10_MalformedTailDiscarded ==
    (lastOp.op = "load" /\ MalformedTail(lastOp.path)) =>
        /\ lastOp.ok
        /\ run.loaded
        /\ run.path = lastOp.path
        /\ run.steps = StepsOfLines(SubSeq(fs[lastOp.path].steps.lines, 1,
                                           Len(fs[lastOp.path].steps.lines) - 1))

\* a load that kept two steps and discarded the malformed final line
C10_Witness ==
    /\ lastOp.op = "load"
    /\ MalformedTail(lastOp.path)
    /\ lastOp.ok
    /\ Len(run.steps) >= 2

\* the step ids are 1, 2, ..., in log order
Contiguous(steps) == \A j \in 1..Len(steps) : steps[j].step_id = j

\* C20: the step log of a simulation branched from a source run whose step
\* ids are 1..N holds only step lines, and their step ids are 1..M in log
\* order: they start at 1 and have no gap and no duplicate.
C20_ContiguousStepIds ==
    (lastOp.op = "createSimulation" /\ lastOp.ok /\ Contiguous(run.steps)) =>
        LET lines == fs[lastOp.path].steps.lines
        IN  /\ \A j \in 1..Len(lines) : lines[j].kind = "json"
            /\ Contiguous(StepsOfLines(lines))

\* a simulation of two steps branched at step 2 of a source of three
C20_Witness ==
    /\ lastOp.op = "createSimulation"
    /\ lastOp.ok
    /\ lastOp.stepId = 2
    /\ Len(run.steps) = 3
    /\ Contiguous(run.steps)
    /\ Len(fs[lastOp.path].steps.lines) = 2

\* the parent directory with the final line of d's steps.jsonl removed
WithoutTail(f, d) ==
    [f EXCEPT ![d].steps.lines = SubSeq(@, 1, Len(@) - 1)]

\* C11: a load that discarded an unparseable final line reports the run as
\* partial: what the caller receives differs from what it receives for the
\* complete run made of the same lines without the discarded one.
C11_PartialReported ==
    (lastOp.op = "load" /\ lastOp.ok /\ MalformedTail(lastOp.path)) =>
        run # RunLoader_load(WithoutTail(fs, lastOp.path), lastOp.path).run

\* ========================================================================
\* RunContext (the editor's single current-run slot)
\* ========================================================================

MaxPending == 2      \* loadRun calls suspended at their await at one time

\* `undefined` where a RunLoader is expected
NoLoader == [defined |-> FALSE, runPath |-> ""]

\* new RunLoader(runPath)
RunLoader_new(runPath) == [defined |-> TRUE, runPath |-> runPath]

\* what the two emitters deliver to their listeners
RunChangeEvent(r) == [event |-> "onDidRunChange", run |-> r, step |-> NoStep]
StepChangeEvent(s) == [event |-> "onDidStepChange", run |-> NoRun, step |-> s]

\* loadRun after its await that keeps the step index of the run before
loadRun_resolved_keepIndex(r) ==
    [currentRun |-> r, currentStepIndex |-> ctxStepIndex,
     fired |-> IF Len(r.steps) > 0
               THEN <<RunChangeEvent(r), StepChangeEvent(r.steps[1])>>
               ELSE <<RunChangeEvent(r)>>]

\* loadRun after its await resolved with a run
loadRun_resolved(r) ==
    [currentRun |-> r, currentStepIndex |-> 0,
     fired |-> IF Len(r.steps) > 0
               THEN <<RunChangeEvent(r), StepChangeEvent(r.steps[1])>>
               ELSE <<RunChangeEvent(r)>>]

\* a catch block that leaves the loader of the failed call in place
loadRun_catch_keepLoader(loader) ==
    [currentRun |-> NoRun, loader |-> loader, fired |-> <<RunChangeEvent(NoRun)>>]

\* loadRun's catch block
loadRun_catch(loader) ==
    [currentRun |-> NoRun, loader |-> NoLoader, fired |-> <<RunChangeEvent(NoRun)>>]

NoCtxOp == [op |-> "none", path |-> "", ok |-> FALSE, index |-> 0]

\* the directories a user opens
CtxPaths == {OrigDir, newRunId(0)}

\* recorded step logs: n complete lines
RecordedStepsFile(n) ==
    [exists |-> TRUE, lines |-> [i \in 1..n |-> JSONstringifyStep(RecordedStep(i, "ok"))]]

\* what such a directory may hold: a recorded run of any length, a run whose
\* meta.json is missing or does not parse, or nothing at all
CtxDirs ==
    {RecordedDir(RecordedMeta, RecordedStepsFile(n)) : n \in 0..MaxLines}
    \cup {RecordedDir(NoMeta, RecordedStepsFile(1)),
          RecordedDir(MalformedMeta, RecordedStepsFile(1)), NoDir}

InitCtxIdle ==
    /\ ctxCurrentRun = NoRun
    /\ ctxLoader = NoLoader
    /\ ctxStepIndex = 0
    /\ pendingLoads = <<>>
    /\ fired = <<>>
    /\ ctxLast = NoCtxOp

InitCtx ==
    /\ fs \in {[d \in DirNames |-> IF d = OrigDir THEN a
                                  ELSE IF d = newRunId(0) THEN b ELSE NoDir] :
               a \in CtxDirs, b \in CtxDirs}
    /\ now = 0
    /\ run = NoRun
    /\ simCalls = 0
    /\ lastOp = NoOp
    /\ InitCtxIdle

\* loadRun(runPath) up to its await: the loader is replaced and load() has run
LoadRunStart(runPath) ==
    /\ Len(pendingLoads) < MaxPending
    /\ ctxLoader' = RunLoader_new(runPath)
    /\ pendingLoads' = Append(pendingLoads,
                              [path |-> runPath, result |-> RunLoader_load(fs, runPath)])
    /\ fired' = <<>>
    /\ ctxLast' = [NoCtxOp EXCEPT !.op = "loadRun:await", !.path = runPath]
    /\ UNCHANGED <<ctxCurrentRun, ctxStepIndex>>
    /\ UNCHANGED <<replayVars, runVars, cmpVars, redVars, recVars, cliVars>>

\* the oldest suspended loadRun continues after its await, to its end
LoadRunResume ==
    /\ pendingLoads # <<>>
    /\ LET c == Head(pendingLoads)
       IN  /\ IF c.result.ok
              THEN LET n == loadRun_resolved(c.result.run)
                   IN  /\ ctxCurrentRun' = n.currentRun
                       /\ ctxStepIndex' = n.currentStepIndex
                       /\ fired' = n.fired
                       /\ UNCHANGED ctxLoader
              ELSE LET n == loadRun_catch(ctxLoader)
                   IN  /\ ctxCurrentRun' = n.currentRun
                       /\ ctxLoader' = n.loader
                       /\ fired' = n.fired
                       /\ UNCHANGED ctxStepIndex
           /\ ctxLast' = [NoCtxOp EXCEPT !.op = "loadRun", !.path = c.path,
                                         !.ok = c.result.ok]
    /\ pendingLoads' = Tail(pendingLoads)
    /\ UNCHANGED <<replayVars, runVars, cmpVars, redVars, recVars, cliVars>>

\* setStep(index)
SetStep(index) ==
    /\ IF ctxCurrentRun = NoRun \/ index < 0 \/ index >= Len(ctxCurrentRun.steps)
       THEN /\ fired' = <<>>
            /\ UNCHANGED ctxStepIndex
       ELSE /\ ctxStepIndex' = index
            /\ fired' = <<StepChangeEvent(ctxCurrentRun.steps[index + 1])>>
    /\ ctxLast' = [NoCtxOp EXCEPT !.op = "setStep", !.index = index]
    /\ UNCHANGED <<ctxCurrentRun, ctxLoader, pendingLoads>>
    /\ UNCHANGED <<replayVars, runVars, cmpVars, redVars, recVars, cliVars>>

\* a run directory from which no run can be read
MetaUnusable(d) ==
    ~fs[d].exists \/ fs[d].meta.kind \in {"missing", "malformed"}

MaxCmpLen == 2       \* longest run handed to compare

\* `null` where a step id is expected
Null == -1

Max(a, b) == IF a >= b THEN a ELSE b
Min(a, b) == IF a <= b THEN a ELSE b

\* A JSON object as JSON.parse builds it: its members in insertion order.
Member(k, v) == [key |-> k, value |-> v]

\* JSON.stringify(object): the members in insertion order
JSONstringifyObject(o) == [i \in 1..Len(o) |-> o[i].key \o ":" \o o[i].value]

\* inputs: two with the same members in a different order, one with another value
StepInputs ==
    {<<Member("toolName", "search"), Member("query", "a")>>,
     <<Member("query", "a"), Member("toolName", "search")>>,
     <<Member("toolName", "search"), Member("query", "b")>>}

StepOutputs ==
    {<<Member("text", "x"), Member("n", "1")>>,
     <<Member("n", "1"), Member("text", "x")>>,
     <<Member("text", "y"), Member("n", "1")>>}

StepPhases == {"reason", "tool"}

\* the step at position i of the first run
FirstRunStep(i) ==
    [step_id |-> i, timestamp |-> 10 * i,
     phase |-> IF i % 2 = 1 THEN "reason" ELSE "tool",
     input |-> <<Member("toolName", "search"), Member("query", "a")>>,
     output |-> <<Member("text", "x"), Member("n", "1")>>,
     status |-> "ok"]

\* the steps a second run may hold at position i
SecondRunSteps(i) ==
    {[step_id |-> 10 + i, timestamp |-> 15 * i, phase |-> ph, input |-> inp, output |-> out,
      status |-> "ok"] :
        ph \in StepPhases, inp \in StepInputs, out \in StepOutputs}

FirstRuns ==
    {[run_id |-> "run_1", steps |-> [i \in 1..n |-> FirstRunStep(i)]] : n \in 0..MaxCmpLen}

SecondRuns ==
    {[run_id |-> "run_2", steps |-> q] :
        q \in UNION {{s \in [1..n -> UNION {SecondRunSteps(i) : i \in 1..n}] :
                         \A i \in 1..n : s[i] \in SecondRunSteps(i)} : n \in 0..MaxCmpLen}}

\* computeMetrics(run)
computeMetrics(r) ==
    [duration |-> (IF Len(r.steps) > 0 THEN r.steps[Len(r.steps)].timestamp ELSE 0)
                  - (IF Len(r.steps) > 0 THEN r.steps[1].timestamp ELSE 0),
     tokens |-> 0,
     steps |-> Len(r.steps)]

\* the row alignSteps pushes for index i (1-based)
alignRow(steps1, steps2, i) ==
    IF i <= Len(steps1) /\ i <= Len(steps2)
    THEN LET s1 == steps1[i]
             s2 == steps2[i]
         IN  [step1 |-> s1.step_id, step2 |-> s2.step_id,
              matchType |->
                IF s1.phase = s2.phase
                   /\ JSONstringifyObject(s1.input) = JSONstringifyObject(s2.input)
                THEN "exact"
                ELSE IF s1.phase = s2.phase THEN "phase" ELSE "mismatch"]
    ELSE IF i <= Len(steps1)
    THEN [step1 |-> steps1[i].step_id, step2 |-> Null, matchType |-> "mismatch"]
    ELSE [step1 |-> Null, step2 |-> steps2[i].step_id, matchType |-> "mismatch"]

\* alignSteps(steps1, steps2)
alignSteps(steps1, steps2) ==
    [i \in 1..Max(Len(steps1), Len(steps2)) |-> alignRow(steps1, steps2, i)]

\* steps1[minLen - 1]?.step_id || 0
lastSharedIdOrZero(steps1, minLen) ==
    IF minLen >= 1 /\ steps1[minLen].step_id # 0 THEN steps1[minLen].step_id ELSE 0

\* findDivergence(steps1, steps2)
findDivergence(steps1, steps2) ==
    LET minLen == Min(Len(steps1), Len(steps2))
        differs == {i \in 1..minLen :
                      \/ JSONstringifyObject(steps1[i].input) # JSONstringifyObject(steps2[i].input)
                      \/ JSONstringifyObject(steps1[i].output) # JSONstringifyObject(steps2[i].output)}
    IN  IF differs # {}
        THEN steps1[CHOOSE i \in differs : \A j \in differs : i <= j].step_id
        ELSE IF Len(steps1) # Len(steps2)
        THEN lastSharedIdOrZero(steps1, minLen)
        ELSE Null

\* compare(run1, run2)
compare(run1, run2) ==
    [done |-> TRUE,
     runId1 |-> run1.run_id,
     runId2 |-> run2.run_id,
     stepAlignment |-> alignSteps(run1.steps, run2.steps),
     divergencePoint |-> findDivergence(run1.steps, run2.steps),
     metricsDiff |-> [duration |-> computeMetrics(run2).duration - computeMetrics(run1).duration,
                      tokens |-> computeMetrics(run2).tokens - computeMetrics(run1).tokens,
                      steps |-> computeMetrics(run2).steps - computeMetrics(run1).steps]]

NoComparison ==
    [done |-> FALSE, runId1 |-> "", runId2 |-> "", stepAlignment |-> <<>>,
     divergencePoint |-> Null,
     metricsDiff |-> [duration |-> 0, tokens |-> 0, steps |-> 0]]

InitCmpIdle ==
    /\ cmpRun1 = [run_id |-> "", steps |-> <<>>]
    /\ cmpRun2 = [run_id |-> "", steps |-> <<>>]
    /\ comparison = NoComparison

InitCmp ==
    /\ cmpRun1 \in FirstRuns
    /\ cmpRun2 \in SecondRuns
    /\ comparison = NoComparison

\* the comparison view asks for compare(run1, run2)
Compare ==
    /\ comparison' = compare(cmpRun1, cmpRun2)
    /\ UNCHANGED <<cmpRun1, cmpRun2, report>>
    /\ UNCHANGED <<replayVars, runVars, ctxVars, redVars, recVars, cliVars>>

\* two JSON objects with the same members, whatever their order
StructEq(a, b) == Range(a) = Range(b)

\* C13: the alignment has max(|A|, |B|) rows in index order; a row where both
\* steps exist is exact when they have the same phase and structurally equal
\* input, phase when they have the same phase and different input, mismatch
\* otherwise; a row where one step is absent is mismatch with null on the
\* absent side.
C13_AlignmentRows ==
    comparison.done =>
        LET A == cmpRun1.steps
            B == cmpRun2.steps
            rows == comparison.stepAlignment
        IN  /\ Len(rows) = Max(Len(A), Len(B))
            /\ \A i \in 1..Len(rows) :
                  IF i <= Len(A) /\ i <= Len(B)
                  THEN /\ rows[i].step1 = A[i].step_id
                       /\ rows[i].step2 = B[i].step_id
                       /\ rows[i].matchType =
                            IF A[i].phase = B[i].phase /\ StructEq(A[i].input, B[i].input)
                            THEN "exact"
                            ELSE IF A[i].phase = B[i].phase THEN "phase" ELSE "mismatch"
                  ELSE /\ rows[i].matchType = "mismatch"
                       /\ rows[i].step1 = IF i <= Len(A) THEN A[i].step_id ELSE Null
                       /\ rows[i].step2 = IF i <= Len(B) THEN B[i].step_id ELSE Null

\* the shared positions at which the input or the output of the two runs differ
DifferAt(A, B) ==
    {i \in 1..Min(Len(A), Len(B)) :
        ~StructEq(A[i].input, B[i].input) \/ ~StructEq(A[i].output, B[i].output)}

\* C14: the divergence point is the step id of A's step at the first shared
\* position where the input or the output differ; when every shared position
\* is identical and the lengths differ it is the step id of the last shared
\* position; it is null only when the runs have the same length and are
\* identical at every position.
C14_DivergencePoint ==
    comparison.done =>
        LET A == cmpRun1.steps
            B == cmpRun2.steps
            d == DifferAt(A, B)
            minLen == Min(Len(A), Len(B))
        IN  /\ d # {} =>
                  comparison.divergencePoint =
                      A[CHOOSE i \in d : \A j \in d : i <= j].step_id
            /\ (d = {} /\ Len(A) # Len(B) /\ minLen >= 1) =>
                  comparison.divergencePoint = A[minLen].step_id
            /\ (comparison.divergencePoint = Null) <=> (d = {} /\ Len(A) = Len(B))

\* ========================================================================
\* SecretRedactor
\* ========================================================================

MaxDepth == 2        \* deepest nesting of the values handed to redactObject

\* the repetition counts of PATTERNS
SkMinBody == 20
GhpMinBody == 20
JwtMinSegment == 10
SlackMinBody == 10

\* A string is a sequence of words separated by blanks.  A word is a prefix
\* followed by up to three dot-separated segments of characters from
\* [a-zA-Z0-9]; segs holds their lengths.
Word(prefix, segs) == [prefix |-> prefix, segs |-> segs]

\* '********'
MaskWord == Word("********", <<>>)

PATTERNS == <<"sk", "ghp", "jwt", "slack">>

\* whether the pattern matches inside the word; a match covers the whole word
patternMatches(pattern, w) ==
    CASE pattern = "sk" -> w.prefix = "sk-" /\ Len(w.segs) = 1 /\ w.segs[1] >= SkMinBody
      [] pattern = "ghp" -> w.prefix = "ghp_" /\ Len(w.segs) = 1 /\ w.segs[1] >= GhpMinBody
      [] pattern = "jwt" -> /\ w.prefix = "eyJ"
                            /\ Len(w.segs) = 3
                            /\ \A i \in 1..3 : w.segs[i] >= JwtMinSegment
      [] pattern = "slack" -> /\ w.prefix \in {"xoxb-", "xoxa-", "xoxp-", "xoxr-", "xoxs-"}
                              /\ Len(w.segs) = 1
                              /\ w.segs[1] >= SlackMinBody
      [] OTHER -> FALSE

\* text.replace(pattern, '********')
replace(text, pattern) ==
    [i \in 1..Len(text) |-> IF patternMatches(pattern, text[i]) THEN MaskWord ELSE text[i]]

RECURSIVE replaceAll(_, _)
\* the loop over the first n patterns
replaceAll(text, n) ==
    IF n = 0 THEN text ELSE replace(replaceAll(text, n - 1), PATTERNS[n])

\* a redact that applies the first pattern only
redact_firstPatternOnly(text) ==
    IF text = <<>> THEN text ELSE replaceAll(text, 1)

\* SecretRedactor.redact(text)
redact(text) ==
    IF text = <<>> THEN text ELSE replaceAll(text, Len(PATTERNS))

\* key names are sequences of characters
UpperCase ==
    <<"A", "B", "C", "D", "E", "F", "G", "H", "I", "J", "K", "L", "M", "N",
     "O", "P", "Q", "R", "S", "T", "U", "V", "W", "X", "Y", "Z">>
LowerCase ==
    <<"a", "b", "c", "d", "e", "f", "g", "h", "i", "j", "k", "l", "m", "n",
     "o", "p", "q", "r", "s", "t", "u", "v", "w", "x", "y", "z">>

toLowerCase(c) ==
    IF \E i \in 1..Len(UpperCase) : UpperCase[i] = c
    THEN LowerCase[CHOOSE i \in 1..Len(UpperCase) : UpperCase[i] = c]
    ELSE c

includes(s, sub) ==
    \E i \in 1..(Len(s) - Len(sub) + 1) : SubSeq(s, i, i + Len(sub) - 1) = sub

SensitiveWords ==
    {<<"k", "e", "y">>, <<"t", "o", "k", "e", "n">>, <<"s", "e", "c", "r", "e", "t">>,
     <<"p", "a", "s", "s", "w", "o", "r", "d">>, <<"a", "u", "t", "h">>}

\* /key|token|secret|password|auth/i.test(key)
keyIsSensitive(key) ==
    LET lower == [i \in 1..Len(key) |-> toLowerCase(key[i])]
    IN  \E w \in SensitiveWords : includes(lower, w)

\* JSON values
StringValue(text) == [type |-> "string", str |-> text, items |-> <<>>, keys |-> <<>>]
ScalarValue(t) == [type |-> t, str |-> <<>>, items |-> <<>>, keys |-> <<>>]
ArrayValue(items) == [type |-> "array", str |-> <<>>, items |-> items, keys |-> <<>>]
ObjectValue(keys, items) == [type |-> "object", str |-> <<>>, items |-> items, keys |-> keys]

MaskValue == StringValue(<<MaskWord>>)

RECURSIVE redactObject(_)
\* SecretRedactor.redactObject(obj)
redactObject(obj) ==
    IF obj.type = "string" THEN StringValue(redact(obj.str))
    ELSE IF obj.type = "array"
    THEN ArrayValue([i \in 1..Len(obj.items) |-> redactObject(obj.items[i])])
    ELSE IF obj.type = "object"
    THEN ObjectValue(obj.keys,
                     [i \in 1..Len(obj.keys) |->
                        IF keyIsSensitive(obj.keys[i]) THEN MaskValue
                        ELSE redactObject(obj.items[i])])
    ELSE obj

\* the words of the strings handed in: secrets of each kind at the shortest
\* length the pattern takes, the same one character shorter, look-alikes
Words ==
    {Word("hello", <<>>),
     Word("sk-", <<SkMinBody>>), Word("sk-", <<SkMinBody - 1>>), Word("SK-", <<SkMinBody>>),
     Word("ghp_", <<GhpMinBody>>),
     Word("eyJ", <<JwtMinSegment, JwtMinSegment, JwtMinSegment>>),
     Word("eyJ", <<JwtMinSegment, JwtMinSegment - 1, JwtMinSegment>>),
     Word("xoxb-", <<SlackMinBody>>), Word("xoxz-", <<SlackMinBody>>)}

Texts ==
    {<<>>} \cup {<<w>> : w \in Words}
    \cup {<<Word("hello", <<>>), Word("sk-", <<SkMinBody>>)>>,
          <<Word("xoxb-", <<SlackMinBody>>), Word("ghp_", <<GhpMinBody>>)>>}

KeyNames ==
    {<<"i", "d">>, <<"a", "p", "i", "K", "e", "y">>, <<"T", "O", "K", "E", "N">>,
     <<"a", "u", "t", "h", "o", "r">>, <<"n", "o", "t", "e">>}

Leaves ==
    {StringValue(t) : t \in Texts} \cup {ScalarValue("number"), ScalarValue("null")}

FewLeaves ==
    {StringValue(<<Word("sk-", <<SkMinBody>>)>>), StringValue(<<Word("hello", <<>>)>>),
     ScalarValue("number")}

RECURSIVE ValuesOfDepth(_)
\* values nested exactly n deep
ValuesOfDepth(n) ==
    IF n = 0 THEN Leaves
    ELSE LET inner == ValuesOfDepth(n - 1)
         IN  {ArrayValue(<<x>>) : x \in inner}
             \cup {ObjectValue(<<k>>, <<x>>) : k \in KeyNames, x \in inner}
             \cup (IF n = 1
                   THEN {ArrayValue(<<>>), ObjectValue(<<>>, <<>>)}
                        \cup {ArrayValue(<<x, y>>) : x \in FewLeaves, y \in FewLeaves}
                        \cup {ObjectValue(<<<<"i", "d">>, <<"a", "p", "i", "K", "e", "y">>>>,
                                          <<x, y>>) : x \in FewLeaves, y \in FewLeaves}
                   ELSE {})

RedactInputs == UNION {ValuesOfDepth(n) : n \in 0..MaxDepth}

NoValue == ScalarValue("undefined")

InitRedIdle ==
    /\ redactIn = NoValue
    /\ redactOut = [done |-> FALSE, value |-> NoValue]

InitRed ==
    /\ redactIn \in RedactInputs
    /\ redactOut = [done |-> FALSE, value |-> NoValue]

\* a view redacts a value before posting it: SecretRedactor.redactObject(v)
Redact ==
    /\ redactOut' = [done |-> TRUE, value |-> redactObject(redactIn)]
    /\ UNCHANGED redactIn
    /\ UNCHANGED <<replayVars, runVars, ctxVars, cmpVars, recVars, cliVars>>

\* the word holds a match of one of the default secret patterns
HoldsSecret(w) == \E i \in 1..Len(PATTERNS) : patternMatches(PATTERNS[i], w)

\* the key names of KeyNames in which key, token, secret, password or auth
\* occurs, in any letter case
NamesSecret(key) ==
    key \in {<<"a", "p", "i", "K", "e", "y">>, <<"T", "O", "K", "E", "N">>,
             <<"a", "u", "t", "h", "o", "r">>}

RECURSIVE Redacted(_)
\* no string anywhere in v holds a secret, and every member of an object of v
\* under a sensitive key is the mask
Redacted(v) ==
    IF v.type = "string" THEN \A i \in 1..Len(v.str) : ~HoldsSecret(v.str[i])
    ELSE IF v.type = "array" THEN \A i \in 1..Len(v.items) : Redacted(v.items[i])
    ELSE IF v.type = "object"
    THEN \A i \in 1..Len(v.keys) :
            IF NamesSecret(v.keys[i]) THEN v.items[i] = MaskValue
            ELSE Redacted(v.items[i])
    ELSE TRUE

\* C15: redactObject(v) holds, at any nesting depth of objects and arrays, no
\* string with a substring matching a default secret pattern, and under a key
\* whose name matches key|token|secret|password|auth (any letter case) only
\* the mask, whatever the original value was.
C15_RedactedEverywhere ==
    redactOut.done => Redacted(redactOut.value)

RECURSIVE Depth(_)
Depth(v) ==
    IF v.type \in {"array", "object"} /\ v.items # <<>>
    THEN 1 + Depth(v.items[1])
    ELSE 0

\* a number held two levels down under a key spelt in capitals was masked
C15_Witness ==
    /\ redactOut.done
    /\ Depth(redactIn) = 2
    /\ redactIn.type = "object"
    /\ ~keyIsSensitive(redactIn.keys[1])
    /\ redactIn.items[1].type = "object"
    /\ redactIn.items[1].keys = <<<<"T", "O", "K", "E", "N">>>>
    /\ redactIn.items[1].items[1].type = "number"
    /\ redactOut.value.items[1].items[1] = MaskValue

\* ========================================================================
\* AnalysisEngine
\* ========================================================================

MaxRunLen == 5       \* longest run handed to analyze on its own

\* the characters of the tool names and of the words looked for in them
chars(s) ==
    CASE s = "search" -> <<"s", "e", "a", "r", "c", "h">>
      [] s = "ls" -> <<"l", "s">>
      [] s = "read" -> <<"r", "e", "a", "d">>
      [] s = "write" -> <<"w", "r", "i", "t", "e">>
      [] s = "edit" -> <<"e", "d", "i", "t">>
      [] s = "write_file" -> <<"w", "r", "i", "t", "e", "_", "f", "i", "l", "e">>
      [] s = "tools" -> <<"t", "o", "o", "l", "s">>
      [] OTHER -> <<>>

\* object[key]; the empty string where the member is absent
member(o, k) ==
    IF \E i \in 1..Len(o) : o[i].key = k
    THEN o[CHOOSE i \in 1..Len(o) : o[i].key = k].value
    ELSE ""

\* the step at position i of an analysed run
AnalysedStep(i, s, base) ==
    [step_id |-> base + i, timestamp |-> 10 * i,
     phase |-> IF i % 2 = 0 THEN "tool" ELSE "reason",
     input |-> <<Member("toolName", IF i % 4 = 2 THEN "write_file" ELSE "tools")>>,
     output |-> <<Member("text", "x")>>,
     status |-> s]

\* the runs analysed: every sequence of statuses, step ids counted from 0 or 7
AnalysedRuns ==
    {[run_id |-> "run_1",
      steps |-> [i \in 1..Len(st) |-> AnalysedStep(i, st[i], base)]] :
        st \in UNION {[1..n -> {"ok", "error", "retry"}] : n \in 0..MaxRunLen},
        base \in {0, 7}}

\* a retry tag on every retry step
retryTag_everyRetry(steps, i) ==
    IF steps[i].status = "retry" THEN <<"retry-loop">> ELSE <<>>

\* Retry Loop Detection, for the step at position i
retryTag(steps, i) ==
    IF steps[i].status = "retry" /\ i > 1 /\ steps[i - 1].status = "retry"
    THEN <<"retry-loop">>
    ELSE <<>>

\* Exploration vs Commitment, for one step
toolTag(step) ==
    IF step.phase = "tool"
    THEN LET toolName == member(step.input, "toolName")
         IN  IF toolName # "" /\ (\/ includes(chars(toolName), chars("search"))
                                  \/ includes(chars(toolName), chars("ls"))
                                  \/ includes(chars(toolName), chars("read")))
             THEN <<"exploration">>
             ELSE IF toolName # "" /\ (\/ includes(chars(toolName), chars("write"))
                                       \/ includes(chars(toolName), chars("edit")))
             THEN <<"commitment">>
             ELSE <<>>
    ELSE <<>>

\* computeSemanticLabels(steps): step id -> tags, for the steps that have any
computeSemanticLabels(steps) ==
    LET tags(i) == retryTag(steps, i) \o toolTag(steps[i])
        tagged == {i \in 1..Len(steps) : tags(i) # <<>>}
    IN  [id \in {steps[i].step_id : i \in tagged} |->
            tags(CHOOSE i \in tagged :
                    /\ steps[i].step_id = id
                    /\ \A j \in tagged : steps[j].step_id = id => j <= i)]

\* number of steps with status retry
retryCount(steps) == Cardinality({i \in 1..Len(steps) : steps[i].status = "retry"})

\* a ceiling that also fails at exactly one half
checkInvariants_atHalf(steps) ==
    <<IF 2 * retryCount(steps) >= Len(steps)
      THEN [name |-> "Retry Ceiling", status |-> "fail",
            details |-> "High retry rate: " \o ToString(retryCount(steps))
                        \o " retries in " \o ToString(Len(steps)) \o " steps"]
      ELSE [name |-> "Retry Ceiling", status |-> "pass",
            details |-> "Retry rate within normal limits"],
      [name |-> "Tool Order", status |-> "pass",
       details |-> "No obvious tool order violations"]>>

\* checkInvariants(steps); retryCount > steps.length * 0.5 is
\* 2 * retryCount > steps.length
checkInvariants(steps) ==
    <<IF 2 * retryCount(steps) > Len(steps)
      THEN [name |-> "Retry Ceiling", status |-> "fail",
            details |-> "High retry rate: " \o ToString(retryCount(steps))
                        \o " retries in " \o ToString(Len(steps)) \o " steps"]
      ELSE [name |-> "Retry Ceiling", status |-> "pass",
            details |-> "Retry rate within normal limits"],
      [name |-> "Tool Order", status |-> "pass",
       details |-> "No obvious tool order violations"]>>

\* `null` where a RootCauseAnalysis is expected
NoRootCause ==
    [found |-> FALSE, failureStepId |-> Null, causalChain |-> <<>>,
     confidence |-> "", description |-> ""]

\* a causal chain that reaches four steps back
analyzeFailure_fourBack(steps) ==
    LET errors == {i \in 1..Len(steps) : steps[i].status = "error"}
    IN  IF errors = {} THEN NoRootCause
        ELSE LET firstErrorIndex == CHOOSE i \in errors : \A j \in errors : i <= j
                 from == Max(1, firstErrorIndex - 4)
             IN  [found |-> TRUE,
                  failureStepId |-> steps[firstErrorIndex].step_id,
                  causalChain |-> [j \in 1..(firstErrorIndex - from) |->
                                      steps[from + j - 1].step_id],
                  confidence |-> "0.8",
                  description |-> "Failure detected at step "
                                  \o ToString(steps[firstErrorIndex].step_id)]

\* analyzeFailure(steps); positions are 1-based here
analyzeFailure(steps) ==
    LET errors == {i \in 1..Len(steps) : steps[i].status = "error"}
    IN  IF errors = {} THEN NoRootCause
        ELSE LET firstErrorIndex == CHOOSE i \in errors : \A j \in errors : i <= j
                 from == Max(1, firstErrorIndex - 3)
             IN  [found |-> TRUE,
                  failureStepId |-> steps[firstErrorIndex].step_id,
                  causalChain |-> [j \in 1..(firstErrorIndex - from) |->
                                      steps[from + j - 1].step_id],
                  confidence |-> "0.8",
                  description |-> "Failure detected at step "
                                  \o ToString(steps[firstErrorIndex].step_id)]

\* analyze(run)
analyze(r) ==
    [done |-> TRUE,
     semanticLabels |-> computeSemanticLabels(r.steps),
     invariants |-> checkInvariants(r.steps),
     rootCause |-> analyzeFailure(r.steps)]

NoReport ==
    [done |-> FALSE, semanticLabels |-> <<>>, invariants |-> <<>>,
     rootCause |-> NoRootCause]

InitAnIdle == report = NoReport

InitAn ==
    /\ cmpRun1 \in AnalysedRuns
    /\ cmpRun2 = [run_id |-> "", steps |-> <<>>]
    /\ comparison = NoComparison
    /\ report = NoReport

\* an analysis that also stores each step's tags on the step
Analyze_taggingSteps ==
    /\ report' = analyze(cmpRun1)
    /\ cmpRun1' = [cmpRun1 EXCEPT !.steps =
                      [i \in 1..Len(@) |->
                          [semanticLabels |-> retryTag(@, i) \o toolTag(@[i])] @@ @[i]]]
    /\ UNCHANGED <<cmpRun2, comparison>>
    /\ UNCHANGED <<replayVars, runVars, ctxVars, redVars, recVars, cliVars>>

\* the analyze command: engine.analyze(run) on the current run
Analyze ==
    /\ report' = analyze(cmpRun1)
    /\ UNCHANGED <<cmpRun1, cmpRun2, comparison>>
    /\ UNCHANGED <<replayVars, runVars, ctxVars, redVars, recVars, cliVars>>

\* the positions of the steps with status error
ErrorPositions(steps) == {i \in 1..Len(steps) : steps[i].status = "error"}

\* C16: when the run has a step with status error, the root cause names the
\* first such step in log order, and its causal chain is the ids of the
\* min(3, k) steps right before it, in log order, k being the number of steps
\* before it; when no step has status error there is no root cause.
C16_RootCause ==
    report.done =>
        LET steps == cmpRun1.steps
            errs == ErrorPositions(steps)
        IN  IF errs = {} THEN report.rootCause = NoRootCause
            ELSE LET f == CHOOSE i \in errs : \A j \in errs : i <= j
                     n == Min(3, f - 1)
                 IN  /\ report.rootCause.found
                     /\ report.rootCause.failureStepId = steps[f].step_id
                     /\ Len(report.rootCause.causalChain) = n
                     /\ \A j \in 1..n :
                           report.rootCause.causalChain[j] = steps[f - n + j - 1].step_id

\* the first error is the fifth step: the chain is the three ids before it
C16_Witness ==
    /\ report.done
    /\ ErrorPositions(cmpRun1.steps) = {5}
    /\ report.rootCause.causalChain =
           <<cmpRun1.steps[2].step_id, cmpRun1.steps[3].step_id, cmpRun1.steps[4].step_id>>

\* C17: the Retry Ceiling check fails exactly when the retries are more than
\* 50% of the steps, and passes otherwise, at exactly 50% and for an empty
\* run too.
C17_RetryCeiling ==
    report.done =>
        LET steps == cmpRun1.steps
            retries == Cardinality({i \in 1..Len(steps) : steps[i].status = "retry"})
        IN  /\ report.invariants[1].name = "Retry Ceiling"
            /\ report.invariants[1].status =
                   IF 100 * retries > 50 * Len(steps) THEN "fail" ELSE "pass"

\* two retries in four steps pass
C17_Witness ==
    /\ report.done
    /\ Len(cmpRun1.steps) = 4
    /\ retryCount(cmpRun1.steps) = 2
    /\ report.invariants[1].status = "pass"

\* the step at position i carries the retry-loop tag in the report
RetryLoopTagged(i) ==
    /\ cmpRun1.steps[i].step_id \in DOMAIN report.semanticLabels
    /\ "retry-loop" \in Range(report.semanticLabels[cmpRun1.steps[i].step_id])

IsRetry(i) == i \in 1..Len(cmpRun1.steps) /\ cmpRun1.steps[i].status = "retry"

\* C18 as stated: a step is tagged retry-loop exactly when it belongs to a
\* sequence of two or more consecutive steps with status retry.
C18_RetryLoopMembers ==
    report.done =>
        \A i \in 1..Len(cmpRun1.steps) :
            RetryLoopTagged(i) <=> (IsRetry(i) /\ (IsRetry(i - 1) \/ IsRetry(i + 1)))

\* C18: a step is tagged retry-loop exactly when it has status retry and the
\* step right before it has status retry too, so the first step of a
\* sequence of consecutive retries is not tagged; a run without two adjacent
\* retry steps has no retry-loop tag.
C18_RetryLoopAfterRetry ==
    report.done =>
        /\ \A i \in 1..Len(cmpRun1.steps) :
              RetryLoopTagged(i) <=> (IsRetry(i) /\ IsRetry(i - 1))
        /\ (\A i \in 1..Len(cmpRun1.steps) : ~(IsRetry(i) /\ IsRetry(i + 1))) =>
              \A i \in 1..Len(cmpRun1.steps) : ~RetryLoopTagged(i)

\* three retries in a row: the second and third are tagged, the first is not
C18_Witness ==
    /\ report.done
    /\ Len(cmpRun1.steps) >= 3
    /\ IsRetry(1) /\ IsRetry(2) /\ IsRetry(3)
    /\ ~RetryLoopTagged(1)
    /\ RetryLoopTagged(2)
    /\ RetryLoopTagged(3)

MaxRecorded == 3     \* the configured maximum step count of a run

\* metadata before the seal: no terminal fields
OpenMeta == [status |-> "", termination_reason |-> "", truncated |-> FALSE]

\* the step record the recorder appends at position n
RecStepRecord(n, phase, status) == [step_id |-> n, phase |-> phase, status |-> status]

\* init(meta): idle -> recording; a second init is AlreadyActive
Recorder_init(rec) ==
    IF rec.state = "idle"
    THEN [state |-> "recording", steps |-> <<>>, meta |-> OpenMeta, result |-> "ok"]
    ELSE [rec EXCEPT !.result = "AlreadyActive"]

\* a step exit that appends whatever the count
Recorder_step_noLimit(rec, phase, status) ==
    IF rec.state = "idle" THEN [rec EXCEPT !.result = "NoActiveRun"]
    ELSE IF rec.state = "sealed" THEN [rec EXCEPT !.result = "Sealed"]
    ELSE [rec EXCEPT !.steps = Append(@, RecStepRecord(Len(@) + 1, phase, status)),
                     !.result = "ok"]

\* the exit of a step scope: the limit is checked before the append; the
\* record that reaches the limit is the final terminate step and seals the run
Recorder_step(rec, phase, status) ==
    IF rec.state = "idle" THEN [rec EXCEPT !.result = "NoActiveRun"]
    ELSE IF rec.state = "sealed" THEN [rec EXCEPT !.result = "Sealed"]
    ELSE IF Len(rec.steps) + 1 >= MaxRecorded
    THEN [state |-> "sealed",
          steps |-> Append(rec.steps, RecStepRecord(Len(rec.steps) + 1, "terminate", "ok")),
          meta |-> [status |-> "limit_exceeded", termination_reason |-> "limit_exceeded",
                    truncated |-> TRUE],
          result |-> "LimitExceeded"]
    ELSE [rec EXCEPT !.steps = Append(@, RecStepRecord(Len(@) + 1, phase, status)),
                     !.result = "ok"]

\* stop(reason): recording -> sealed
Recorder_stop(rec, reason) ==
    IF rec.state = "idle" THEN [rec EXCEPT !.result = "NoActiveRun"]
    ELSE IF rec.state = "sealed" THEN [rec EXCEPT !.result = "Sealed"]
    ELSE [rec EXCEPT !.state = "sealed",
                     !.meta = [status |-> reason, termination_reason |-> reason,
                               truncated |-> FALSE],
                     !.result = "ok"]

\* the recorder as one record
Recorder == [state |-> recState, steps |-> recSteps, meta |-> recMeta, result |-> recLast.result]

InitRecIdle ==
    /\ recState = "idle"
    /\ recSteps = <<>>
    /\ recMeta = OpenMeta
    /\ recLast = [op |-> "none", result |-> ""]

RecInit ==
    /\ LET r == Recorder_init(Recorder)
       IN  /\ recState' = r.state
           /\ recSteps' = r.steps
           /\ recMeta' = r.meta
           /\ recLast' = [op |-> "init", result |-> r.result]
    /\ UNCHANGED <<replayVars, runVars, ctxVars, cmpVars, redVars, cliVars>>

\* a step scope opened with the phase and left with the status
RecStep(phase, status) ==
    /\ LET r == Recorder_step(Recorder, phase, status)
       IN  /\ recState' = r.state
           /\ recSteps' = r.steps
           /\ recMeta' = r.meta
           /\ recLast' = [op |-> "step", result |-> r.result]
    /\ UNCHANGED <<replayVars, runVars, ctxVars, cmpVars, redVars, cliVars>>

RecStop(reason) ==
    /\ LET r == Recorder_stop(Recorder, reason)
       IN  /\ recState' = r.state
           /\ recSteps' = r.steps
           /\ recMeta' = r.meta
           /\ recLast' = [op |-> "stop", result |-> r.result]
    /\ UNCHANGED <<replayVars, runVars, ctxVars, cmpVars, redVars, cliVars>>

\* C21: a run never holds more persisted steps than the configured maximum;
\* a step attempted when its record would reach the maximum seals the run
\* with truncated = true and termination_reason = limit_exceeded; once the
\* run is sealed every step call is rejected and no step is appended.
C21_StepLimit ==
    [][/\ Len(recSteps') <= MaxRecorded
       /\ (recState = "recording" /\ recLast'.op = "step"
             /\ Len(recSteps) + 1 >= MaxRecorded) =>
              /\ recState' = "sealed"
              /\ recMeta'.truncated
              /\ recMeta'.termination_reason = "limit_exceeded"
       /\ recState = "sealed" =>
              /\ recState' = "sealed"
              /\ recSteps' = recSteps
              /\ recMeta' = recMeta
              /\ recLast'.op = "step" => recLast'.result = "Sealed"]_vars

\* a step call was rejected on a run truncated at the maximum
C21_Witness ==
    /\ recState = "sealed"
    /\ recMeta.truncated
    /\ recMeta.termination_reason = "limit_exceeded"
    /\ Len(recSteps) = MaxRecorded
    /\ recLast = [op |-> "step", result |-> "Sealed"]

\* ========================================================================
\* Test CLI (test-runner.ts) and TestEngine
\* ========================================================================

\* a TestAssertion: its type and the params the assertions read
Assertion(type, tool, minTimes, count, stepType, operator, key, value) ==
    [type |-> type, tool |-> tool, minTimes |-> minTimes, count |-> count,
     stepType |-> stepType, operator |-> operator, key |-> key, value |-> value]

\* evaluateAssertion(assertion).passed; the final state an assertion reads is
\* trace.finalState || the last step's stateSnapshot, as in the replay engine
evaluateAssertion(t, a) ==
    LET toolSteps == {i \in 1..Len(t.steps) :
                        t.steps[i].stepType = "tool" /\ t.steps[i].input.toolName = a.tool}
        finalState == OriginalFinalState(t)
    IN  CASE a.type = "tool_called" ->
                Cardinality(toolSteps) >= (IF a.minTimes # 0 THEN a.minTimes ELSE 1)
          [] a.type = "tool_not_called" -> Cardinality(toolSteps) = 0
          [] a.type = "max_steps" -> Len(t.steps) <= a.count
          [] a.type = "min_steps" -> Len(t.steps) >= a.count
          [] a.type = "state_contains" ->
                /\ finalState # NoState
                /\ JSONstringify(finalState[a.key]) = JSONstringify(a.value)
          [] a.type = "state_not_contains" ->
                \/ finalState = NoState
                \/ JSONstringify(finalState[a.key]) # JSONstringify(a.value)
          [] a.type = "step_type_count" ->
                LET actualCount == Cardinality({i \in 1..Len(t.steps) :
                                                  t.steps[i].stepType = a.stepType})
                    operator == IF a.operator # "" THEN a.operator ELSE "eq"
                IN  CASE operator = "eq" -> actualCount = a.count
                      [] operator = "lt" -> actualCount < a.count
                      [] operator = "lte" -> actualCount <= a.count
                      [] operator = "gt" -> actualCount > a.count
                      [] operator = "gte" -> actualCount >= a.count
                      [] OTHER -> FALSE
          [] a.type = "custom" -> TRUE
          [] OTHER -> FALSE

\* runTest(testCase).passed
runTest(t, testCase) ==
    \A i \in 1..Len(testCase.assertions) : evaluateAssertion(t, testCase.assertions[i])

\* runTests(testCases): the counts of the TestSuiteResult
runTests(t, testCases) ==
    [totalTests |-> Len(testCases),
     passed |-> Cardinality({i \in 1..Len(testCases) : runTest(t, testCases[i])}),
     failed |-> Cardinality({i \in 1..Len(testCases) : ~runTest(t, testCases[i])})]

\* the built-in tests of the CLI
defaultTests ==
    <<[name |-> "Agent should complete within reasonable steps",
       assertions |-> <<Assertion("max_steps", "", 0, 20, "", "", "", "")>>],
      [name |-> "Agent should have minimal errors",
       assertions |-> <<Assertion("step_type_count", "", 0, 3, "error", "lte", "", "")>>],
      [name |-> "Agent should use at least one tool",
       assertions |-> <<Assertion("step_type_count", "", 0, 1, "tool", "gte", "", "")>>]>>

\* the test files handed to the CLI
TestFiles ==
    {<<[name |-> "searches",
        assertions |-> <<Assertion("tool_called", "search", 0, 0, "", "", "", "")>>]>>,
     <<[name |-> "never books",
        assertions |-> <<Assertion("tool_not_called", "book", 0, 0, "", "", "", ""),
                         Assertion("min_steps", "", 0, 1, "", "", "", "")>>],
       [name |-> "completes",
        assertions |-> <<Assertion("state_contains", "", 0, 0, "", "", "status", "completed")>>]>>,
     <<[name |-> "goal kept",
        assertions |-> <<Assertion("state_not_contains", "", 0, 0, "", "", "goal", "g2"),
                         Assertion("step_type_count", "", 0, 1, "llm", "", "", "")>>]>>,
     <<[name |-> "unknown",
        assertions |-> <<Assertion("no_such_type", "", 0, 0, "", "", "", "")>>]>>}

NoExit == [done |-> FALSE, code |-> 0, loaded |-> FALSE, failed |-> 0]

\* runTests(tracePath, testPath) of the CLI: whether it returned or threw, and
\* the results it displayed. args says whether the trace file exists, whether
\* TraceRecorder.load reads it or throws, and holds the tests of the test file
\* (none: the built-in tests run)
cliRunTests(args, t) ==
    IF ~args.traceExists
    THEN [threw |-> FALSE, loaded |-> FALSE, failed |-> 0]
    ELSE IF ~args.traceLoads
    THEN [threw |-> TRUE, loaded |-> FALSE, failed |-> 0]
    ELSE [threw |-> FALSE, loaded |-> TRUE,
          failed |-> runTests(t, IF args.testFile # <<>> THEN args.testFile
                                 ELSE defaultTests).failed]

\* main().catch(console.error): nothing sets the exit status, so the process
\* ends with status 0 whether runTests returned or threw
main(args, t) ==
    LET r == cliRunTests(args, t)
    IN  [done |-> TRUE, code |-> 0, loaded |-> r.loaded, failed |-> r.failed]

InitCliIdle ==
    /\ cliArgs = [traceExists |-> FALSE, traceLoads |-> FALSE, testFile |-> <<>>]
    /\ cliExit = NoExit

\* the test command runs to the end of the process
Main ==
    /\ ~cliExit.done
    /\ cliExit' = main(cliArgs, trace)
    /\ UNCHANGED cliArgs
    /\ UNCHANGED <<replayVars, runVars, ctxVars, cmpVars, redVars, recVars>>

\* C22: the test CLI exits with status 0 if all assertions pass against the
\* trace, and with status 1 otherwise: when an assertion failed or the trace
\* could not be loaded.
C22_ExitStatus ==
    cliExit.done =>
        cliExit.code = IF cliExit.loaded /\ cliExit.failed = 0 THEN 0 ELSE 1

\* ========================================================================
\* Further properties of the replay engine
\* ========================================================================

\* C23: a model-endpoint invocation that returns a recorded llm step reports
\* shouldContinue = true exactly when at least one recorded step remains after
\* the step it returned, and false only when that step was the last of the trace.
C23_ShouldContinue ==
    (lastCall.kind = "llm" /\ lastCall.found) =>
        (lastCall.shouldContinue <=> lastCall.index < Len(trace.steps))

\* C26: whenever replay() reports success = true (no divergence) it reports
\* stateMatch = true; stateMatch = false comes with a state_mismatch divergence.
C26_SuccessImpliesStateMatch ==
    replayResult.returned =>
        /\ replayResult.success => replayResult.stateMatch
        /\ ~replayResult.stateMatch =>
              HasDivergence(replayResult.divergences, "state_mismatch")

\* C30: when the model endpoint has returned a toolCall and the next
\* invocation is the tool endpoint with that tool name, the tool endpoint
\* returns the recorded success, result and error of the tool step that
\* follows, never the 'No recorded output' error result.
C30_ToolCallAnswered ==
    [][(/\ lastCall.kind = "llm"
        /\ lastCall.toolCall # NoTool
        /\ lastCall'.kind = "tool"
        /\ lastCall'.toolName = lastCall.toolCall) =>
            LET step == trace.steps[lastCall.index + 1]
            IN  /\ lastCall'.found
                /\ lastCall'.index = lastCall.index + 1
                /\ step.stepType = "tool"
                /\ step.input.toolName = lastCall.toolCall
                /\ lastCall'.success = step.output.success
                /\ lastCall'.result = step.output.result
                /\ lastCall'.error = step.output.error
                /\ lastCall'.error # "No recorded output"]_vars

\* the tool endpoint has answered the toolCall of the llm step handed out
\* just before
C30_Witness ==
    /\ lastCall.kind = "tool"
    /\ lastCall.found
    /\ lastCall.error # "No recorded output"
    /\ lastCall.index > 1
    /\ trace.steps[lastCall.index - 1].stepType = "llm"
    /\ Len(handedOut) >= 2
    /\ handedOut[Len(handedOut) - 1] = lastCall.index - 1
    /\ handedOut[Len(handedOut)] = lastCall.index
    /\ lastCall.cursorBefore = lastCall.index - 1

\* ========================================================================
\* Timeline navigation (TimelineProvider) and further properties of RunContext
\* ========================================================================

\* get currentStep(): undefined without a run or with a run of no steps
currentStep ==
    IF ctxCurrentRun = NoRun \/ Len(ctxCurrentRun.steps) = 0 THEN NoStep
    ELSE IF ctxStepIndex + 1 \in 1..Len(ctxCurrentRun.steps)
    THEN ctxCurrentRun.steps[ctxStepIndex + 1]
    ELSE NoStep

\* jumpToStepId(stepId): a click on a step of the timeline
JumpToStepId(stepId) ==
    /\ LET index == findIndex(ctxCurrentRun.steps, stepId) - 1
       IN  IF ctxCurrentRun # NoRun /\ index # -1
           THEN /\ ctxStepIndex' = index
                /\ fired' = <<StepChangeEvent(ctxCurrentRun.steps[index + 1])>>
           ELSE /\ fired' = <<>>
                /\ UNCHANGED ctxStepIndex
    /\ ctxLast' = [NoCtxOp EXCEPT !.op = "jumpToStepId", !.index = stepId]
    /\ UNCHANGED <<ctxCurrentRun, ctxLoader, pendingLoads>>
    /\ UNCHANGED <<replayVars, runVars, cmpVars, redVars, recVars, cliVars>>

\* navigateStep(delta): the next (+1) and prev (-1) buttons of the timeline
NavigateStep(delta) ==
    /\ LET currentIndex == findIndex(ctxCurrentRun.steps, currentStep.step_id) - 1
           newIndex == currentIndex + delta
       IN  IF /\ ctxCurrentRun # NoRun /\ currentStep # NoStep
              /\ currentIndex # -1
              /\ newIndex >= 0 /\ newIndex < Len(ctxCurrentRun.steps)
           THEN /\ ctxStepIndex' = newIndex
                /\ fired' = <<StepChangeEvent(ctxCurrentRun.steps[newIndex + 1])>>
           ELSE /\ fired' = <<>>
                /\ UNCHANGED ctxStepIndex
    /\ ctxLast' = [NoCtxOp EXCEPT !.op = "navigateStep", !.index = delta]
    /\ UNCHANGED <<ctxCurrentRun, ctxLoader, pendingLoads>>
    /\ UNCHANGED <<replayVars, runVars, cmpVars, redVars, recVars, cliVars>>

\* C24: whenever a run-change or step-change event is delivered, and whenever
\* no loadRun is in progress, the loader is defined exactly when currentRun is
\* defined, and the loader's run path is the path of currentRun.
C24_LoaderBelongsToRun ==
    (fired # <<>> \/ pendingLoads = <<>>) =>
        /\ ctxLoader.defined <=> ctxCurrentRun # NoRun
        /\ ctxCurrentRun # NoRun => ctxLoader.runPath = ctxCurrentRun.path

IndexInRange ==
    (ctxCurrentRun # NoRun /\ Len(ctxCurrentRun.steps) > 0) =>
        /\ 0 <= ctxStepIndex /\ ctxStepIndex < Len(ctxCurrentRun.steps)
        /\ currentStep = ctxCurrentRun.steps[ctxStepIndex + 1]

\* C25: with a current run of at least one step, 0 <= currentStepIndex <
\* number of steps and currentStep is a step of the run; setStep with an index
\* out of range or with no run changes nothing and fires no event; a
\* successful loadRun leaves the index at 0; prev at the first step and next
\* at the last step leave the selection unchanged.
C25_StepIndexValid ==
    /\ IndexInRange
    /\ [][/\ IndexInRange'
          /\ (/\ ctxLast'.op = "setStep"
              /\ \/ ctxCurrentRun = NoRun
                 \/ ctxLast'.index < 0
                 \/ ctxLast'.index >= Len(ctxCurrentRun.steps)) =>
                 /\ UNCHANGED <<ctxCurrentRun, ctxLoader, ctxStepIndex, pendingLoads>>
                 /\ fired' = <<>>
          /\ (ctxLast'.op = "loadRun" /\ ctxLast'.ok) => ctxStepIndex' = 0
          /\ (/\ ctxLast'.op = "navigateStep"
              /\ ctxCurrentRun # NoRun
              /\ Len(ctxCurrentRun.steps) > 0
              /\ \/ ctxLast'.index = -1 /\ ctxStepIndex = 0
                 \/ ctxLast'.index = 1 /\ ctxStepIndex = Len(ctxCurrentRun.steps) - 1) =>
                 /\ UNCHANGED <<ctxCurrentRun, ctxStepIndex>>
                 /\ fired' = <<>>]_vars

\* next pressed at the last step of a run of several steps, after a shorter
\* run had been replaced by it
C25_Witness ==
    /\ ctxLast = [NoCtxOp EXCEPT !.op = "navigateStep", !.index = 1]
    /\ ctxCurrentRun # NoRun
    /\ Len(ctxCurrentRun.steps) > 1
    /\ ctxStepIndex = Len(ctxCurrentRun.steps) - 1
    /\ fired = <<>>

\* ========================================================================
\* Further properties of counterfactual construction
\* ========================================================================

\* C27: a createSimulation whose pivot step id is not in the source run fails
\* with 'Step not found' and leaves the filesystem as it was before the call:
\* no new run directory, meta.json or steps.jsonl.
C27_FailedSimulationLeavesNothing ==
    [][(/\ simCalls' = simCalls + 1
        /\ lastOp'.op = "createSimulation"
        /\ findIndex(run.steps, lastOp'.stepId) = 0) =>
            /\ ~lastOp'.ok
            /\ fs' = fs]_vars

\* ========================================================================
\* State Inspector: redaction of a state snapshot
\* ========================================================================

StepIdKey == <<"s", "t", "e", "p", "_", "i", "d">>
MemoryKey == <<"m", "e", "m", "o", "r", "y">>
ContextTokensKey == <<"c", "o", "n", "t", "e", "x", "t", "_", "t", "o", "k", "e", "n", "s">>
ToolsStateKey == <<"t", "o", "o", "l", "s", "_", "s", "t", "a", "t", "e">>

\* what loader.getSnapshot(stepId) returns for a recorded snapshot file:
\* step_id, memory (array of objects of one member), context_tokens (integer),
\* tools_state (object)
Snapshots ==
    LET MemoryEntries ==
            {ObjectValue(<<k>>, <<x>>) :
                k \in {<<"n", "o", "t", "e">>, <<"a", "p", "i", "K", "e", "y">>},
                x \in FewLeaves}
        ToolsStates ==
            {ObjectValue(<<>>, <<>>)}
            \cup {ObjectValue(<<k>>, <<x>>) :
                    k \in {<<"i", "d">>, <<"T", "O", "K", "E", "N">>}, x \in FewLeaves}
    IN  {ObjectValue(<<StepIdKey, MemoryKey, ContextTokensKey, ToolsStateKey>>,
                     <<ScalarValue("number"), ArrayValue(m), ScalarValue("number"), ts>>) :
            m \in {<<>>} \cup {<<e>> : e \in MemoryEntries}
                         \cup {<<e, f>> : e \in MemoryEntries, f \in MemoryEntries},
            ts \in ToolsStates}

\* the member of object v under the key
Field(v, key) == v.items[CHOOSE i \in 1..Len(v.keys) : v.keys[i] = key]

\* what the redaction of a memory entry or of the tool state may do to its
\* members: the mask under a secret-named key, the mask in place of the words
\* of a string that hold a secret, and nothing else
MaskedOnlyWhereSecret(in, out) ==
    /\ out.type = "object"
    /\ out.keys = in.keys
    /\ Len(out.items) = Len(in.items)
    /\ \A i \in 1..Len(in.keys) :
          IF NamesSecret(in.keys[i]) THEN out.items[i] = MaskValue
          ELSE IF in.items[i].type = "string"
          THEN /\ out.items[i].type = "string"
               /\ Len(out.items[i].str) = Len(in.items[i].str)
               /\ \A j \in 1..Len(in.items[i].str) :
                     out.items[i].str[j] = IF HoldsSecret(in.items[i].str[j])
                                           THEN MaskWord
                                           ELSE in.items[i].str[j]
          ELSE out.items[i] = in.items[i]

\* C29: the redaction of a state snapshot keeps step_id and context_tokens at
\* their recorded integer values and memory and tools_state in their shape;
\* only strings matching a secret pattern and values under secret-named keys
\* inside memory entries or the tool state are replaced by the mask.
C29_SnapshotSchemaKept ==
    (redactOut.done /\ redactIn \in Snapshots) =>
        LET in == redactIn
            out == redactOut.value
        IN  /\ out.type = "object"
            /\ out.keys = in.keys
            /\ Field(out, StepIdKey) = Field(in, StepIdKey)
            /\ Field(out, ContextTokensKey) = Field(in, ContextTokensKey)
            /\ Field(out, MemoryKey).type = "array"
            /\ Len(Field(out, MemoryKey).items) = Len(Field(in, MemoryKey).items)
            /\ \A i \in 1..Len(Field(in, MemoryKey).items) :
                  MaskedOnlyWhereSecret(Field(in, MemoryKey).items[i],
                                        Field(out, MemoryKey).items[i])
            /\ MaskedOnlyWhereSecret(Field(in, ToolsStateKey), Field(out, ToolsStateKey))

\* ========================================================================
\* Further properties of the comparison
\* ========================================================================

\* C28: when compare reports divergencePoint = null, every row of the
\* alignment is exact; a row classified phase or mismatch comes with a
\* non-null divergence point.
C28_NullDivergenceAllExact ==
    comparison.done =>
        (comparison.divergencePoint = Null =>
            \A i \in 1..Len(comparison.stepAlignment) :
                comparison.stepAlignment[i].matchType = "exact")

\* ========================================================================
\* Specifications
\* ========================================================================

InitReplayIdle ==
    /\ trace = [steps |-> <<>>, finalState |-> NoState, toolsUsed |-> {}]
    /\ currentStepIndex = 0
    /\ replayRecorder = [steps |-> <<>>, sealed |-> FALSE]
    /\ replayState = createInitialState
    /\ divergences = <<>>
    /\ lastCall = NoCall
    /\ handedOut = <<>>
    /\ calls = 0
    /\ replayResult = NoResult

\* The state after construction: the named part over its inputs, every other
\* part idle. The test command starts from a trace file and its command line
\* (a trace file that loads exists); the State Inspector from a snapshot.
InitWith(part) ==
    /\ CASE part = "replay" -> InitReplayEngine
         [] part = "cli" ->
                /\ trace \in Traces
                /\ currentStepIndex = 0
                /\ replayRecorder = [steps |-> <<>>, sealed |-> FALSE]
                /\ replayState = createInitialState
                /\ divergences = <<>>
                /\ lastCall = NoCall
                /\ handedOut = <<>>
                /\ calls = 0
                /\ replayResult = NoResult
         [] OTHER -> InitReplayIdle
    /\ CASE part = "runs" -> InitRuns /\ InitCtxIdle
         [] part = "loader" -> InitLoader /\ InitCtxIdle
         [] part = "context" -> InitCtx
         [] OTHER -> InitRunsIdle /\ InitCtxIdle
    /\ CASE part = "compare" -> InitCmp /\ InitAnIdle
         [] part = "analysis" -> InitAn
         [] OTHER -> InitCmpIdle /\ InitAnIdle
    /\ CASE part = "redact" -> InitRed
         [] part = "snapshot" ->
                /\ redactIn \in Snapshots
                /\ redactOut = [done |-> FALSE, value |-> NoValue]
         [] OTHER -> InitRedIdle
    /\ InitRecIdle
    /\ IF part = "cli"
       THEN /\ cliArgs \in [traceExists : BOOLEAN, traceLoads : BOOLEAN,
                            testFile : TestFiles \cup {<<>>}]
            /\ cliArgs.traceLoads => cliArgs.traceExists
            /\ cliExit = NoExit
       ELSE InitCliIdle

SpecReplay ==
    InitWith("replay")
        /\ [][\/ LLMCall
              \/ \E t \in ToolNames : ToolExecute(t)
              \/ Replay]_vars

SpecRuns ==
    InitWith("runs")
        /\ [][\/ \E d \in DirNames : Load(d)
              \/ \E id \in 0..MaxLines, m \in Modifications : CreateSimulation(id, m)
              \/ Tick]_vars

SpecLoader == InitWith("loader") /\ [][\E d \in DirNames : Load(d)]_vars

SpecContext ==
    InitWith("context")
        /\ [][\/ \E d \in CtxPaths : LoadRunStart(d)
              \/ LoadRunResume
              \/ \E i \in -1..MaxLines : SetStep(i)
              \/ \E id \in 0..MaxLines : JumpToStepId(id)
              \/ \E delta \in {-1, 1} : NavigateStep(delta)]_vars

SpecCompare == InitWith("compare") /\ [][Compare \/ Analyze]_vars

SpecRedact == InitWith("redact") /\ [][Redact]_vars

SpecAnalysis == InitWith("analysis") /\ [][Analyze]_vars

SpecRecorder ==
    InitWith("recorder")
        /\ [][\/ RecInit
              \/ \E phase \in {"reason", "tool", "observe", "memory"},
                    status \in {"ok", "error"} : RecStep(phase, status)
              \/ \E reason \in {"success", "failure", "aborted"} : RecStop(reason)]_vars

\* the State Inspector redacts the snapshot of the step it shows
SpecSnapshot == InitWith("snapshot") /\ [][Redact]_vars

\* the test command
SpecCli == InitWith("cli") /\ [][Main]_vars

====
